---- MODULE Spec2Model ----
(***************************************************************************)
(* Model of finalapp.py, the hospital patient analytics dashboard.         *)
(*                                                                         *)
(* The program is a Streamlit script: every user interaction re-executes   *)
(* the script from its first line in a fresh namespace.  One execution is  *)
(* modelled as a sequence of steps (pc), one per block of the script; an   *)
(* uncaught exception ends the execution (error # "").  The only state     *)
(* that survives an execution is the widget state of the session and the   *)
(* st.cache_data memo of load_data.                                        *)
(*                                                                         *)
(* Conventions                                                             *)
(*  - a DataFrame is [columns |-> set of names, rows |-> sequence of       *)
(*    records]; the pandas index label of a row is its field idx;          *)
(*  - a string whose characters matter (name, search term) is a sequence   *)
(*    of one-character strings; the empty CSV field is read as NaN, so the *)
(*    empty sequence is the missing name;                                  *)
(*  - a service is named by its rank in the order pandas sorts the service *)
(*    strings in;                                                          *)
(*  - a float that is a mean is [nan, sum, n] (the value sum/n), compared  *)
(*    by cross multiplication;                                             *)
(*  - a date string of the CSV is [day, hour]; a Timestamp is a number of  *)
(*    hours.                                                               *)
(***************************************************************************)
EXTENDS Integers, Sequences, FiniteSets, TLC

\* ------------------------------------------------------------------ bounds
MaxRecords == 2
MaxAge == 101
MaxDay == 2

\* -------------------------------------------------------- program constants
HoursPerDay == 24
SatisfactionMin == 0
SatisfactionMax == 100

\* bins= and labels= of pd.cut
bins == <<0, 18, 35, 50, 65, 100>>
labels == <<"0-18", "19-35", "36-50", "51-65", "65+">>
NaNLabel == "NaN"

\* ----------------------------------------------------------------- helpers
Range(s) == {s[i] : i \in 1..Len(s)}

SetMin(S) == CHOOSE x \in S : \A y \in S : x <= y

SetMax(S) == CHOOSE x \in S : \A y \in S : x >= y

RECURSIVE SeqSum(_)
SeqSum(s) == IF s = <<>> THEN 0 ELSE s[1] + SeqSum(Tail(s))

\* the values of a set of integers in ascending order
RECURSIVE SortedSeq(_)
SortedSeq(S) == IF S = {} THEN <<>> ELSE <<SetMin(S)>> \o SortedSeq(S \ {SetMin(S)})

Column(frame, c) == [i \in 1..Len(frame.rows) |-> frame.rows[i][c]]

NaN == [nan |-> TRUE, sum |-> 0, n |-> 0]

\* Series.mean(): NaN over no value
Mean(values) ==
    IF values = <<>> THEN NaN
    ELSE [nan |-> FALSE, sum |-> SeqSum(values), n |-> Len(values)]

\* a > b for two means that are not NaN
MeanGreater(a, b) == a.sum * b.n > b.sum * a.n

\* --------------------------------------------------------------- load_data
\* pd.to_datetime on one date string
to_datetime(d) == d.day * HoursPerDay + d.hour

\* the difference of the two calendar dates, the time of day dropped
TimedeltaDaysByCalendarDate(arrival, departure) ==
    (departure \div HoursPerDay) - (arrival \div HoursPerDay)

\* Timedelta.days: the days component of the normalised difference (floor)
TimedeltaDays(arrival, departure) == (departure - arrival) \div HoursPerDay

CsvColumns ==
    {"patient_id", "name", "age", "service", "arrival_date", "departure_date",
     "satisfaction"}

load_data(source) ==
    [columns |-> CsvColumns \cup {"length_of_stay"},
     rows |-> [i \in 1..Len(source) |->
        [idx |-> i - 1,
         patient_id |-> source[i].patient_id,
         name |-> source[i].name,
         age |-> source[i].age,
         service |-> source[i].service,
         arrival_date |-> to_datetime(source[i].arrival_date),
         departure_date |-> to_datetime(source[i].departure_date),
         satisfaction |-> source[i].satisfaction,
         length_of_stay |-> TimedeltaDays(to_datetime(source[i].arrival_date),
                                          to_datetime(source[i].departure_date))]]]

\* ------------------------------------------------------------ Filter Engine
\* frame[mask]: a new frame of the rows whose mask entry is TRUE, in order
RECURSIVE MaskedRows(_, _, _)
MaskedRows(rows, mask, i) ==
    IF i > Len(rows) THEN <<>>
    ELSE (IF mask[i] THEN <<rows[i]>> ELSE <<>>) \o MaskedRows(rows, mask, i + 1)

BooleanIndex(frame, mask) ==
    [columns |-> frame.columns, rows |-> MaskedRows(frame.rows, mask, 1)]

\* the mask without the upper age bound
FilterMaskWithoutUpperAge(frame, svc, range, minsat) ==
    [i \in 1..Len(frame.rows) |->
        /\ frame.rows[i].service \in svc
        /\ frame.rows[i].age >= range[1]
        /\ frame.rows[i].satisfaction >= minsat]

FilterMask(frame, svc, range, minsat) ==
    [i \in 1..Len(frame.rows) |->
        /\ frame.rows[i].service \in svc
        /\ frame.rows[i].age >= range[1]
        /\ frame.rows[i].age <= range[2]
        /\ frame.rows[i].satisfaction >= minsat]

ApplyFilters(frame, svc, range, minsat) ==
    BooleanIndex(frame, FilterMask(frame, svc, range, minsat))

\* ------------------------------------------------------- Aggregation Engine
Count(values, v) == Cardinality({i \in 1..Len(values) : values[i] = v})

FirstIndex(values, v) == SetMin({i \in 1..Len(values) : values[i] = v})

\* the values of a set in the order of their first occurrence in values
RECURSIVE InOrderOfAppearance(_, _)
InOrderOfAppearance(values, S) ==
    IF S = {} THEN <<>>
    ELSE LET v == CHOOSE x \in S :
                     \A y \in S : FirstIndex(values, x) <= FirstIndex(values, y)
         IN  <<v>> \o InOrderOfAppearance(values, S \ {v})

\* the values of maximal count in the order of their first occurrence
modeInOrderOfAppearance(values) ==
    InOrderOfAppearance(values,
        {v \in Range(values) :
            \A w \in Range(values) : Count(values, v) >= Count(values, w)})

\* Series.mode(): the values of maximal count, sorted ascending
mode(values) ==
    SortedSeq({v \in Range(values) :
                 \A w \in Range(values) : Count(values, v) >= Count(values, w)})

\* the valcol values of the rows whose keycol is key
GroupValues(frame, keycol, key, valcol) ==
    Column(BooleanIndex(frame, [i \in 1..Len(frame.rows) |-> frame.rows[i][keycol] = key]),
           valcol)

\* groupby(keycol)[valcol].mean() with the group keys in the order keys; a key
\* with no row gets the mean of no value
GroupMeans(frame, keycol, keys, valcol) ==
    [k \in 1..Len(keys) |->
        [key |-> keys[k], mean |-> Mean(GroupValues(frame, keycol, keys[k], valcol))]]

\* groupby('service'): a plain column, the keys are the observed values, sorted
ServiceGroupMeans(frame) ==
    GroupMeans(frame, "service", SortedSeq(Range(Column(frame, "service"))),
               "satisfaction")

\* sort_values(ascending=False) of a series of means without NaN, ties kept in
\* their order
RECURSIVE InsertDescending(_, _)
InsertDescending(sorted, e) ==
    IF sorted = <<>> THEN <<e>>
    ELSE IF MeanGreater(e.mean, sorted[1].mean) THEN <<e>> \o sorted
    ELSE <<sorted[1]>> \o InsertDescending(Tail(sorted), e)

RECURSIVE SortValuesDescending(_, _)
SortValuesDescending(series, i) ==
    IF i = 0 THEN <<>>
    ELSE InsertDescending(SortValuesDescending(series, i - 1), series[i])

\* pd.cut(age, bins, labels): right-closed intervals (bins[k], bins[k+1]],
\* NaN for a value in none of them
cut(age) ==
    IF \E k \in 1..Len(labels) : bins[k] < age /\ age <= bins[k + 1]
    THEN labels[CHOOSE k \in 1..Len(labels) : bins[k] < age /\ age <= bins[k + 1]]
    ELSE NaNLabel

\* filtered_df['age_group'] = pd.cut(...): the column is set on the frame itself
SetAgeGroup(frame) ==
    [columns |-> frame.columns \cup {"age_group"},
     rows |-> [i \in 1..Len(frame.rows) |->
        [c \in DOMAIN frame.rows[i] \cup {"age_group"} |->
            IF c = "age_group" THEN cut(frame.rows[i].age) ELSE frame.rows[i][c]]]]

\* the categories of the age_group column that have a row, in category order
RECURSIVE ObservedLabels(_, _)
ObservedLabels(frame, k) ==
    IF k > Len(labels) THEN <<>>
    ELSE (IF labels[k] \in Range(Column(frame, "age_group")) THEN <<labels[k]>> ELSE <<>>)
         \o ObservedLabels(frame, k + 1)

\* groupby('age_group') on the categorical column: with observed=False every
\* category is a group, with observed=True the categories that have a row; a row
\* whose age_group is NaN is in no group
AgeGroupMeans(frame, observed) ==
    GroupMeans(frame, "age_group",
               IF observed THEN ObservedLabels(frame, 1) ELSE labels,
               "satisfaction")

\* Series.corr: Pearson, with cov, varx and vary scaled by n*n; NaN when a
\* variance is zero (also for one row or none)
corr(xs, ys) ==
    LET n == Len(xs)
        sx == SeqSum(xs)
        sy == SeqSum(ys)
        sxy == SeqSum([i \in 1..n |-> xs[i] * ys[i]])
        sxx == SeqSum([i \in 1..n |-> xs[i] * xs[i]])
        syy == SeqSum([i \in 1..n |-> ys[i] * ys[i]])
        varx == n * sxx - sx * sx
        vary == n * syy - sy * sy
    IN  IF varx = 0 \/ vary = 0
        THEN [nan |-> TRUE, cov |-> 0, varx |-> 0, vary |-> 0]
        ELSE [nan |-> FALSE, cov |-> n * sxy - sx * sy, varx |-> varx, vary |-> vary]

\* the if / elif / else on the coefficient: both comparisons are False on NaN
CorrelationMessage(c) ==
    IF ~c.nan /\ c.cov > 0 THEN "positive"
    ELSE IF ~c.nan /\ c.cov < 0 THEN "negative"
    ELSE "no clear correlation"

\* value_counts(): counts of the observed values
value_counts(values) == [v \in Range(values) |-> Count(values, v)]

\* ------------------------------------------------------------------ Search
Chars == {"a", "A", "b", "."}

Lower(c) == IF c = "A" THEN "a" ELSE c

\* one pattern character against one character under re.IGNORECASE: the
\* pattern is a regular expression, "." stands for any character
CharMatches(p, c) == p = "." \/ Lower(p) = Lower(c)

\* Series.str.contains(pat, case=False, na=False) on one name: re.search of
\* the pattern; a missing name gives na
Contains(name, pat) ==
    IF name = <<>> THEN FALSE
    ELSE \E i \in 0..(Len(name) - Len(pat)) :
            \A j \in 1..Len(pat) : CharMatches(pat[j], name[i + j])

SearchRows(frame, term) ==
    IF term # <<>>
    THEN BooleanIndex(frame,
            [i \in 1..Len(frame.rows) |-> Contains(frame.rows[i].name, term)])
    ELSE frame

\* ------------------------------------------------------------------ state
VARIABLES
    csv,                    \* the rows of patients.csv
    cache,                  \* the st.cache_data memo of load_data
    widgets,                \* the widget values the session keeps between runs
    pc,                     \* the block of the script the run is at
    error,                  \* the exception that ended the run, "" for none
    defined,                \* the names bound in the run's namespace
    df,
    services,
    age_range,
    min_satisfaction,
    filtered_df,
    avg_satisfaction,
    avg_stay,
    total_patients,
    most_common_service,
    service_satisfaction,
    insight,
    correlation,
    message,
    age_group_satisfaction,
    search_term,
    search_df,
    service_counts

sidebar == <<services, age_range, min_satisfaction>>

tab1 == <<avg_satisfaction, avg_stay, total_patients, most_common_service,
          service_satisfaction, insight>>

tab2 == <<correlation, message>>

tab4 == <<search_term, search_df>>

vars == <<csv, cache, widgets, pc, error, defined, df, sidebar, filtered_df, tab1,
          tab2, age_group_satisfaction, tab4, service_counts>>

EmptyFrame == [columns |-> {}, rows |-> <<>>]

NoInsight == [highest |-> 0, lowest |-> 0]

NoCorrelation == [nan |-> TRUE, cov |-> 0, varx |-> 0, vary |-> 0]

\* a fresh namespace: no name of the script is bound; an unbound name is given
\* a value of its type
Unbound ==
    [defined |-> {},
     df |-> EmptyFrame,
     services |-> {},
     age_range |-> <<0, 0>>,
     min_satisfaction |-> 0,
     filtered_df |-> EmptyFrame,
     avg_satisfaction |-> NaN,
     avg_stay |-> NaN,
     total_patients |-> 0,
     most_common_service |-> 0,
     service_satisfaction |-> <<>>,
     insight |-> NoInsight,
     correlation |-> NoCorrelation,
     message |-> "",
     age_group_satisfaction |-> <<>>,
     search_term |-> <<>>,
     search_df |-> EmptyFrame,
     service_counts |-> <<>>]

FreshNamespace ==
    /\ defined = Unbound.defined
    /\ df = Unbound.df
    /\ services = Unbound.services
    /\ age_range = Unbound.age_range
    /\ min_satisfaction = Unbound.min_satisfaction
    /\ filtered_df = Unbound.filtered_df
    /\ avg_satisfaction = Unbound.avg_satisfaction
    /\ avg_stay = Unbound.avg_stay
    /\ total_patients = Unbound.total_patients
    /\ most_common_service = Unbound.most_common_service
    /\ service_satisfaction = Unbound.service_satisfaction
    /\ insight = Unbound.insight
    /\ correlation = Unbound.correlation
    /\ message = Unbound.message
    /\ age_group_satisfaction = Unbound.age_group_satisfaction
    /\ search_term = Unbound.search_term
    /\ search_df = Unbound.search_df
    /\ service_counts = Unbound.service_counts

\* the run starts: the script executes in a namespace of its own
NewNamespace ==
    /\ defined' = Unbound.defined
    /\ df' = Unbound.df
    /\ services' = Unbound.services
    /\ age_range' = Unbound.age_range
    /\ min_satisfaction' = Unbound.min_satisfaction
    /\ filtered_df' = Unbound.filtered_df
    /\ avg_satisfaction' = Unbound.avg_satisfaction
    /\ avg_stay' = Unbound.avg_stay
    /\ total_patients' = Unbound.total_patients
    /\ most_common_service' = Unbound.most_common_service
    /\ service_satisfaction' = Unbound.service_satisfaction
    /\ insight' = Unbound.insight
    /\ correlation' = Unbound.correlation
    /\ message' = Unbound.message
    /\ age_group_satisfaction' = Unbound.age_group_satisfaction
    /\ search_term' = Unbound.search_term
    /\ search_df' = Unbound.search_df
    /\ service_counts' = Unbound.service_counts

\* the widgets before the user has touched them: each shows its default
DefaultWidgets ==
    [touched |-> FALSE, services |-> {}, age_range |-> <<0, 0>>,
     min_satisfaction |-> 0, search_term |-> <<>>]

\* the files of at most maxlen rows over a set of rows; patient_id numbers the rows
Sources(rowset, maxlen) ==
    UNION {{[i \in 1..n |->
                [patient_id |-> i, name |-> f[i].name, age |-> f[i].age,
                 service |-> f[i].service, arrival_date |-> f[i].arrival_date,
                 departure_date |-> f[i].departure_date,
                 satisfaction |-> f[i].satisfaction]] : f \in [1..n -> rowset]}
           : n \in 0..maxlen}

Midnight(d) == [day |-> d, hour |-> 0]

\* the first run of a session over one of the files
InitOver(sources) ==
    /\ csv \in sources
    /\ cache = [hit |-> FALSE, value |-> EmptyFrame]
    /\ widgets = DefaultWidgets
    /\ pc = "load"
    /\ error = ""
    /\ FreshNamespace

\* services, ages and satisfaction scores vary
Init ==
    InitOver(Sources([name : {<<"A", "b">>}, age : {18, 40}, service : {1, 2},
                      arrival_date : {Midnight(0)}, departure_date : {Midnight(1)},
                      satisfaction : {10, 20}],
                     MaxRecords))

\* one record of any age up to MaxAge
InitAge ==
    InitOver(Sources([name : {<<"A", "b">>}, age : 0..MaxAge, service : {1, 2},
                      arrival_date : {Midnight(0)}, departure_date : {Midnight(1)},
                      satisfaction : {10, 20}],
                     1))

\* names vary, the missing name included
InitSearch ==
    InitOver(Sources([name : {<<>>, <<"A", "b">>, <<"b">>, <<"a", ".">>},
                      age : {40}, service : {1, 2},
                      arrival_date : {Midnight(0)}, departure_date : {Midnight(1)},
                      satisfaction : {10}],
                     2))

\* arrival and departure vary, with a time of day
InitLoad ==
    InitOver(Sources([name : {<<"A", "b">>}, age : {40}, service : {1},
                      arrival_date : [day : 0..MaxDay, hour : {0, 12}],
                      departure_date : [day : 0..MaxDay, hour : {0, 12}],
                      satisfaction : {10}],
                     2))

\* the stay and the satisfaction score vary
InitCorrelation ==
    InitOver(Sources([name : {<<"A", "b">>}, age : {40}, service : {1},
                      arrival_date : {Midnight(0)},
                      departure_date : {Midnight(0), Midnight(1), Midnight(2)},
                      satisfaction : {10, 20, 30}],
                     MaxRecords + 1))

\* ------------------------------------------------------------- the script
\* df = load_data(): the memo answers every call after the first
Load ==
    /\ pc = "load"
    /\ df' = IF cache.hit THEN cache.value ELSE load_data(csv)
    /\ cache' = [hit |-> TRUE, value |-> df']
    /\ defined' = defined \cup {"df"}
    /\ pc' = "sidebar"
    /\ UNCHANGED <<csv, widgets, error, sidebar, filtered_df, tab1, tab2,
                   age_group_satisfaction, tab4, service_counts>>

\* the three sidebar widgets: each returns the session's value, or its default
\* on a widget the user has not touched.  int(df['age'].min()) of no row raises.
Sidebar ==
    /\ pc = "sidebar"
    /\ services' = IF widgets.touched THEN widgets.services
                   ELSE Range(Column(df, "service"))
    /\ IF df.rows = <<>>
       THEN /\ error' = "ValueError"
            /\ pc' = "done"
            /\ defined' = defined \cup {"services"}
            /\ UNCHANGED <<age_range, min_satisfaction>>
       ELSE /\ age_range' = IF widgets.touched THEN widgets.age_range
                            ELSE <<SetMin(Range(Column(df, "age"))),
                                   SetMax(Range(Column(df, "age")))>>
            /\ min_satisfaction' = IF widgets.touched THEN widgets.min_satisfaction
                                   ELSE SatisfactionMin
            /\ defined' = defined \cup {"services", "age_range", "min_satisfaction"}
            /\ pc' = "filter"
            /\ UNCHANGED error
    /\ UNCHANGED <<csv, cache, widgets, df, filtered_df, tab1, tab2,
                   age_group_satisfaction, tab4, service_counts>>

\* filtered_df = df[...]
Filter ==
    /\ pc = "filter"
    /\ filtered_df' = ApplyFilters(df, services, age_range, min_satisfaction)
    /\ defined' = defined \cup {"filtered_df"}
    /\ pc' = "metrics"
    /\ UNCHANGED <<csv, cache, widgets, error, df, sidebar, tab1, tab2,
                   age_group_satisfaction, tab4, service_counts>>

\* the four key metrics; mode()[0] of no row raises
KeyMetrics ==
    /\ pc = "metrics"
    /\ avg_satisfaction' = Mean(Column(filtered_df, "satisfaction"))
    /\ avg_stay' = Mean(Column(filtered_df, "length_of_stay"))
    /\ total_patients' = Len(filtered_df.rows)
    /\ IF mode(Column(filtered_df, "service")) = <<>>
       THEN /\ error' = "KeyError"
            /\ pc' = "done"
            /\ defined' = defined \cup {"avg_satisfaction", "avg_stay", "total_patients"}
            /\ UNCHANGED most_common_service
       ELSE /\ most_common_service' = mode(Column(filtered_df, "service"))[1]
            /\ defined' = defined \cup {"avg_satisfaction", "avg_stay", "total_patients",
                                        "most_common_service"}
            /\ pc' = "query1"
            /\ UNCHANGED error
    /\ UNCHANGED <<csv, cache, widgets, df, sidebar, filtered_df, service_satisfaction,
                   insight, tab2, age_group_satisfaction, tab4, service_counts>>

\* mean satisfaction per service, highest first, and the insight on its first
\* and last entry; index[0] of no entry raises
Query1 ==
    /\ pc = "query1"
    /\ service_satisfaction' =
          SortValuesDescending(ServiceGroupMeans(filtered_df),
                               Len(ServiceGroupMeans(filtered_df)))
    /\ IF service_satisfaction' = <<>>
       THEN /\ error' = "IndexError"
            /\ pc' = "done"
            /\ defined' = defined \cup {"service_satisfaction"}
            /\ UNCHANGED insight
       ELSE /\ insight' = [highest |-> service_satisfaction'[1].key,
                           lowest |-> service_satisfaction'[Len(service_satisfaction')].key]
            /\ defined' = defined \cup {"service_satisfaction", "insight"}
            /\ pc' = "query2"
            /\ UNCHANGED error
    /\ UNCHANGED <<csv, cache, widgets, df, sidebar, filtered_df, avg_satisfaction,
                   avg_stay, total_patients, most_common_service, tab2,
                   age_group_satisfaction, tab4, service_counts>>

\* the correlation coefficient and the message chosen on its sign
Query2 ==
    /\ pc = "query2"
    /\ correlation' = corr(Column(filtered_df, "length_of_stay"),
                           Column(filtered_df, "satisfaction"))
    /\ message' = CorrelationMessage(correlation')
    /\ defined' = defined \cup {"correlation", "message"}
    /\ pc' = "age_groups"
    /\ UNCHANGED <<csv, cache, widgets, error, df, sidebar, filtered_df, tab1,
                   age_group_satisfaction, tab4, service_counts>>

\* the age_group column and the mean satisfaction per age group.  The script
\* leaves observed= to the default of groupby, which is False before pandas 3
\* and True from pandas 3 on.
AgeGroups ==
    /\ pc = "age_groups"
    /\ filtered_df' = SetAgeGroup(filtered_df)
    /\ \E observed \in BOOLEAN :
          age_group_satisfaction' = AgeGroupMeans(filtered_df', observed)
    /\ defined' = defined \cup {"age_group_satisfaction"}
    /\ pc' = "search"
    /\ UNCHANGED <<csv, cache, widgets, error, df, sidebar, tab1, tab2, tab4,
                   service_counts>>

\* the search box and the table under it
Search ==
    /\ pc = "search"
    /\ search_term' = widgets.search_term
    /\ search_df' = SearchRows(filtered_df, search_term')
    /\ defined' = defined \cup {"search_term", "search_df"}
    /\ pc' = "summary"
    /\ UNCHANGED <<csv, cache, widgets, error, df, sidebar, filtered_df, tab1, tab2,
                   age_group_satisfaction, service_counts>>

\* the footer
DataSummary ==
    /\ pc = "summary"
    /\ service_counts' = value_counts(Column(filtered_df, "service"))
    /\ defined' = defined \cup {"service_counts"}
    /\ pc' = "done"
    /\ UNCHANGED <<csv, cache, widgets, error, df, sidebar, filtered_df, tab1, tab2,
                   age_group_satisfaction, tab4>>

\* ------------------------------------------------------------ interactions
\* the values the user can give the widgets: any selection of the services of
\* the data, a range between two ages of the data, a floor, a search text
MinSatisfactionChoices == {SatisfactionMin, 15, SatisfactionMax}

SearchTerms == {<<>>, <<"a">>, <<".">>, <<"a", "b">>}

AgeRangeChoices(frame) ==
    IF frame.rows = <<>> THEN {<<0, 0>>}
    ELSE {<<lo, hi>> \in Range(Column(frame, "age")) \X Range(Column(frame, "age")) :
            lo <= hi}

\* the values the widgets show at the end of a run: the session's values, or
\* the defaults; a widget that the run did not reach (the search box, when the
\* run stopped before it) has lost its value
ShownWidgets ==
    [touched |-> TRUE,
     services |-> IF widgets.touched THEN widgets.services
                  ELSE Range(Column(cache.value, "service")),
     age_range |-> IF widgets.touched \/ cache.value.rows = <<>> THEN widgets.age_range
                   ELSE <<SetMin(Range(Column(cache.value, "age"))),
                          SetMax(Range(Column(cache.value, "age")))>>,
     min_satisfaction |-> widgets.min_satisfaction,
     search_term |-> IF "search_term" \in defined THEN widgets.search_term ELSE <<>>]

\* what one interaction can make of the widgets: the user changes one widget
WidgetChanges ==
    {[ShownWidgets EXCEPT !.services = s] :
        s \in SUBSET Range(Column(cache.value, "service"))}
    \cup {[ShownWidgets EXCEPT !.age_range = r] : r \in AgeRangeChoices(cache.value)}
    \cup {[ShownWidgets EXCEPT !.min_satisfaction = m] : m \in MinSatisfactionChoices}
    \cup {[ShownWidgets EXCEPT !.search_term = t] :
             t \in IF "search_term" \in defined THEN SearchTerms ELSE {<<>>}}

\* an incremental update: the new widget value is taken, the namespace of the
\* last run is kept and the script resumes after the filter
RerunKeepingTheView ==
    /\ pc = "done"
    /\ error = ""
    /\ widgets' \in WidgetChanges
    /\ pc' = "metrics"
    /\ UNCHANGED <<csv, cache, error, defined, df, sidebar, filtered_df, tab1, tab2,
                   age_group_satisfaction, tab4, service_counts>>

\* The user changes a widget after a run has ended, and the script runs again
\* from its first line in a fresh namespace.
Rerun ==
    /\ pc = "done"
    /\ widgets' \in WidgetChanges
    /\ pc' = "load"
    /\ error' = ""
    /\ NewNamespace
    /\ UNCHANGED <<csv, cache>>

Next ==
    \/ Load
    \/ Sidebar
    \/ Filter
    \/ KeyMetrics
    \/ Query1
    \/ Query2
    \/ AgeGroups
    \/ Search
    \/ DataSummary
    \/ Rerun

Spec == Init /\ [][Next]_vars

SpecAge == InitAge /\ [][Next]_vars

SpecSearch == InitSearch /\ [][Next]_vars

SpecLoad == InitLoad /\ [][Next]_vars

SpecCorrelation == InitCorrelation /\ [][Next]_vars

\* ================================================================== claims
Bound(name) == name \in defined

\* the criteria of the current run: the widget values, or the defaults
Criteria ==
    IF widgets.touched THEN widgets
    ELSE [touched |-> FALSE,
          services |-> {csv[i].service : i \in 1..Len(csv)},
          age_range |-> <<SetMin({csv[i].age : i \in 1..Len(csv)}),
                          SetMax({csv[i].age : i \in 1..Len(csv)})>>,
          min_satisfaction |-> SatisfactionMin,
          search_term |-> <<>>]

\* the record passes the base criteria of the run
Passes(r) ==
    /\ r.service \in services
    /\ age_range[1] <= r.age
    /\ r.age <= age_range[2]
    /\ r.satisfaction >= min_satisfaction

\* two rows are the same record: same index label, same value in every column
\* of the store
SameRecord(r, q) ==
    /\ r.idx = q.idx
    /\ \A c \in df.columns : r[c] = q[c]

\* a frame without the age_group column
WithoutAgeGroup(frame) ==
    [columns |-> frame.columns \ {"age_group"},
     rows |-> [i \in 1..Len(frame.rows) |->
        [c \in DOMAIN frame.rows[i] \ {"age_group"} |-> frame.rows[i][c]]]]

\* C1: the filtered view is exactly the records of the store that pass all
\* three criteria, each once and in the store's order; no record passes an
\* empty services set.
FilteredViewIsTheMatchingSubsequence ==
    Bound("filtered_df") =>
        /\ \A i \in 1..Len(filtered_df.rows) :
              \E j \in 1..Len(df.rows) :
                 /\ SameRecord(filtered_df.rows[i], df.rows[j])
                 /\ Passes(df.rows[j])
        /\ \A j \in 1..Len(df.rows) :
              Passes(df.rows[j]) =>
                 \E i \in 1..Len(filtered_df.rows) : filtered_df.rows[i].idx = df.rows[j].idx
        /\ \A i, k \in 1..Len(filtered_df.rows) :
              i < k => filtered_df.rows[i].idx < filtered_df.rows[k].idx
        /\ services = {} => filtered_df.rows = <<>>

\* C1 witness: of two records the filter has dropped the first and kept the second
FilterKeepsTheSecondRecordOnly ==
    /\ Bound("filtered_df")
    /\ Len(df.rows) = 2
    /\ Len(filtered_df.rows) = 1
    /\ filtered_df.rows[1].idx = 1
    /\ services # {}

\* C2: a run whose criteria exclude every record does not end in an error, and
\* at its end every aggregate is bound and in its no-data state.
EmptyViewEndsInNoDataState ==
    (Bound("filtered_df") /\ filtered_df.rows = <<>>) =>
        /\ error = ""
        /\ pc = "done" =>
              /\ {"avg_satisfaction", "most_common_service", "service_satisfaction",
                  "insight", "correlation"} \subseteq defined
              /\ avg_satisfaction.nan
              /\ most_common_service = 0
              /\ service_satisfaction = <<>>
              /\ insight = NoInsight
              /\ correlation.nan

\* the bucket of the fixed partition [0,18], [19,35], [36,50], [51,65], [66,oo)
PartitionLabel(age) ==
    IF age <= 18 THEN "0-18"
    ELSE IF age <= 35 THEN "19-35"
    ELSE IF age <= 50 THEN "36-50"
    ELSE IF age <= 65 THEN "51-65"
    ELSE "65+"

\* C3: every record of the view gets the bucket of the fixed partition that
\* its age lies in, age 0 the first and every age from 66 on the last.
AgeGroupFollowsThePartition ==
    Bound("age_group_satisfaction") =>
        \A i \in 1..Len(filtered_df.rows) :
           filtered_df.rows[i].age_group = PartitionLabel(filtered_df.rows[i].age)

\* s occurs in the name as a literal substring, ignoring case
LiteralSubstring(name, s) ==
    /\ name # <<>>
    /\ \E i \in 0..(Len(name) - Len(s)) :
          \A j \in 1..Len(s) : Lower(name[i + j]) = Lower(s[j])

\* C4: the search result is the filtered view itself for an empty search
\* string, and otherwise exactly its records whose name is present and
\* contains the string as a literal substring ignoring case, in order.
SearchIsLiteralSubstringMatch ==
    Bound("search_df") =>
        IF search_term = <<>> THEN search_df = filtered_df
        ELSE search_df =
                BooleanIndex(filtered_df,
                   [i \in 1..Len(filtered_df.rows) |->
                       LiteralSubstring(filtered_df.rows[i].name, search_term)])

\* C5: the Record Store keeps the rows and columns it had after load, and the
\* filtered view keeps the rows and columns the filter step gave it through the
\* aggregation, age-group and search steps.
NoStageChangesItsInput ==
    /\ cache.hit => cache.value = load_data(csv)
    /\ Bound("df") => df = cache.value
    /\ Bound("filtered_df") =>
          filtered_df = ApplyFilters(df, services, age_range, min_satisfaction)

\* the view the current criteria select from the loaded store
CurrentView ==
    ApplyFilters(load_data(csv), Criteria.services, Criteria.age_range,
                 Criteria.min_satisfaction)

\* C6: in every state of every run, whatever the runs before it computed, the
\* filtered view, the search result and each aggregate that is bound is the
\* one the current criteria give over the full loaded store.
ViewsFollowTheCurrentCriteria ==
    LET view == CurrentView
        means == ServiceGroupMeans(view)
    IN  /\ Bound("filtered_df") => WithoutAgeGroup(filtered_df) = view
        /\ Bound("avg_satisfaction") =>
              /\ avg_satisfaction = Mean(Column(view, "satisfaction"))
              /\ avg_stay = Mean(Column(view, "length_of_stay"))
              /\ total_patients = Len(view.rows)
        /\ Bound("most_common_service") =>
              most_common_service = mode(Column(view, "service"))[1]
        /\ Bound("service_satisfaction") =>
              service_satisfaction = SortValuesDescending(means, Len(means))
        /\ Bound("insight") =>
              /\ insight.highest = service_satisfaction[1].key
              /\ insight.lowest = service_satisfaction[Len(service_satisfaction)].key
        /\ Bound("correlation") =>
              /\ correlation = corr(Column(view, "length_of_stay"),
                                    Column(view, "satisfaction"))
              /\ message = CorrelationMessage(correlation)
        /\ Bound("age_group_satisfaction") =>
              \E observed \in BOOLEAN :
                 age_group_satisfaction = AgeGroupMeans(SetAgeGroup(view), observed)
        /\ Bound("search_df") =>
              /\ search_term = Criteria.search_term
              /\ WithoutAgeGroup(search_df) = SearchRows(view, Criteria.search_term)
        /\ Bound("service_counts") =>
              service_counts = value_counts(Column(view, "service"))

\* C6 witness: a later run, under criteria the user has set, has ended with a
\* view that holds some but not all of the records
LaterRunEndsWithNarrowedView ==
    /\ widgets.touched
    /\ pc = "done"
    /\ error = ""
    /\ Len(filtered_df.rows) > 0
    /\ Len(filtered_df.rows) < Len(df.rows)

\* C7: length_of_stay is the number of whole days from arrival to departure,
\* and is not negative when the departure is not before the arrival.
LengthOfStayIsWholeDays ==
    Bound("df") =>
        \A i \in 1..Len(df.rows) :
           LET r == df.rows[i]
               elapsed == r.departure_date - r.arrival_date
           IN  /\ r.length_of_stay * HoursPerDay <= elapsed
               /\ elapsed < (r.length_of_stay + 1) * HoursPerDay
               /\ r.departure_date >= r.arrival_date => r.length_of_stay >= 0

\* C7 witness: a loaded record whose stay is a day and a part of a day
StayOfADayAndAHalf ==
    /\ Bound("df")
    /\ \E i \in 1..Len(df.rows) :
          /\ df.rows[i].length_of_stay = 1
          /\ df.rows[i].departure_date - df.rows[i].arrival_date > HoursPerDay

AllEqual(values) == \A i, j \in 1..Len(values) : values[i] = values[j]

\* C8: when length_of_stay or satisfaction has the same value in every record
\* of the non-empty view, the coefficient is undefined and the run reports
\* neither no clear correlation nor a positive nor a negative one.
ZeroVarianceIsReportedUndefined ==
    (/\ Bound("message")
     /\ filtered_df.rows # <<>>
     /\ \/ AllEqual(Column(filtered_df, "length_of_stay"))
        \/ AllEqual(Column(filtered_df, "satisfaction"))) =>
        /\ correlation.nan
        /\ message \notin {"no clear correlation", "positive", "negative"}

MostFrequent(values) ==
    {v \in Range(values) : \A w \in Range(values) : Count(values, v) >= Count(values, w)}

\* C9 (as stated): the most common service has maximal frequency in the view,
\* and among the services of maximal frequency it is the one seen first.
MostCommonServiceIsTheFirstSeen ==
    Bound("most_common_service") =>
        /\ most_common_service \in MostFrequent(Column(filtered_df, "service"))
        /\ \A w \in MostFrequent(Column(filtered_df, "service")) :
              FirstIndex(Column(filtered_df, "service"), most_common_service)
                 <= FirstIndex(Column(filtered_df, "service"), w)

\* C9 (amended): the most common service has maximal frequency in the view,
\* and among the services of maximal frequency it is the first in sorted order.
MostCommonServiceIsTheSmallest ==
    Bound("most_common_service") =>
        /\ most_common_service \in MostFrequent(Column(filtered_df, "service"))
        /\ \A w \in MostFrequent(Column(filtered_df, "service")) :
              most_common_service <= w

\* C9 witness: two services tie and the one that sorts first was seen second
TieSeenInReverseOrder ==
    /\ Bound("most_common_service")
    /\ Cardinality(MostFrequent(Column(filtered_df, "service"))) = 2
    /\ FirstIndex(Column(filtered_df, "service"), most_common_service) > 1

SeriesKeys(series) == {series[k].key : k \in 1..Len(series)}

\* C10: each grouped mean has one entry for every group value that a record of
\* the view has, and no entry, placeholder or other, for any other value.
GroupedMeansHaveOnlyObservedGroups ==
    /\ Bound("service_satisfaction") =>
          /\ SeriesKeys(service_satisfaction) = Range(Column(filtered_df, "service"))
          /\ Len(service_satisfaction) = Cardinality(SeriesKeys(service_satisfaction))
    /\ Bound("age_group_satisfaction") =>
          /\ SeriesKeys(age_group_satisfaction) =
                Range(Column(filtered_df, "age_group")) \ {NaNLabel}
          /\ Len(age_group_satisfaction) = Cardinality(SeriesKeys(age_group_satisfaction))
          /\ \A k \in 1..Len(age_group_satisfaction) : ~age_group_satisfaction[k].mean.nan

====
